---- MODULE Spec2Model ----
(***************************************************************************)
(* Guernica: comparison of two iptables configurations (src/guernica.py).  *)
(* Lines of text are TLA+ strings, handled a character at a time the way   *)
(* the Python string methods and regular expressions of the source do.     *)
(***************************************************************************)
EXTENDS Integers, Sequences, FiniteSets, TLC

VARIABLES
    pc,                \* position in main (or in the harness of one stage)
    args,              \* parsed command line: before, after, no_normalize
    fs,                \* the two files on disk: exists, lines
    before_lines,      \* main's before_lines
    after_lines,       \* main's after_lines
    renormalized,      \* the normalizer applied to its own output
    validation_errors, \* main's validation_errors
    diff,              \* main's diff (diff_lines of the analysers)
    risky_changes,     \* result of detect_security_risks
    grouped_rules,     \* result of group_rules
    metrics,           \* result of calculate_impact_metrics
    ret,               \* exit code returned by main (-1: still running)
    log                \* what the run did, in order: reads, calls, prints

vars == <<pc, args, fs, before_lines, after_lines, renormalized,
          validation_errors, diff, risky_changes, grouped_rules, metrics,
          ret, log>>

(***************************************************************************)
(* Bounds of the model.                                                    *)
(***************************************************************************)
\* longest file given to the normalizer alone
MaxLines == 3

\* longest rule set given to the pipeline of lines 539-563
MaxPipeLines == 2

\* longest diff given to the analysers alone
MaxDiffLines == 2

\* the scorer alone: most lines of one kind in the first hunk, lines a
\* further hunk adds, and most further hunks
MaxSmall == 1

Burst == 150

MaxBursts == 3

\* the format detector alone: most lines of the file it reads
MaxFormatLines == 4

(***************************************************************************)
(* Characters and Python's str methods.                                    *)
(***************************************************************************)
Ch(s, i) == SubSeq(s, i, i)

From(s, i) == SubSeq(s, i, Len(s))

\* str.isspace / the regex class \s, on the characters a TLA+ string can hold
Space == {" ", "\t", "\n", "\r", "\f"}

Upper == {"A", "B", "C", "D", "E", "F", "G", "H", "I", "J", "K", "L", "M",
          "N", "O", "P", "Q", "R", "S", "T", "U", "V", "W", "X", "Y", "Z"}

Lower == {"a", "b", "c", "d", "e", "f", "g", "h", "i", "j", "k", "l", "m",
          "n", "o", "p", "q", "r", "s", "t", "u", "v", "w", "x", "y", "z"}

Digit == {"0", "1", "2", "3", "4", "5", "6", "7", "8", "9"}

\* the regex class \w
Word == Upper \cup Lower \cup Digit \cup {"_"}

\* the printable ASCII characters in code point order: 32 to 95, and 97 to 126
AsciiLow == " !\"#$%&'()*+,-./0123456789:;<=>?@ABCDEFGHIJKLMNOPQRSTUVWXYZ[\\]^_"

AsciiHigh == "abcdefghijklmnopqrstuvwxyz{|}~"

\* ord(c)
ord(c) ==
    IF c = "\t" THEN 9
    ELSE IF c = "\n" THEN 10
    ELSE IF c = "\f" THEN 12
    ELSE IF c = "\r" THEN 13
    ELSE IF \E i \in 1..Len(AsciiLow) : Ch(AsciiLow, i) = c
    THEN 31 + (CHOOSE i \in 1..Len(AsciiLow) : Ch(AsciiLow, i) = c)
    ELSE 96 + (CHOOSE i \in 1..Len(AsciiHigh) : Ch(AsciiHigh, i) = c)

\* str.startswith
startswith(s, prefix) ==
    /\ Len(s) >= Len(prefix)
    /\ SubSeq(s, 1, Len(prefix)) = prefix

RECURSIVE lstrip(_)
lstrip(s) ==
    IF s # "" /\ Ch(s, 1) \in Space THEN lstrip(From(s, 2)) ELSE s

RECURSIVE rstrip(_)
rstrip(s) ==
    IF s # "" /\ Ch(s, Len(s)) \in Space
    THEN rstrip(SubSeq(s, 1, Len(s) - 1))
    ELSE s

\* str.strip
strip(s) == rstrip(lstrip(s))

\* a < b for two str, as Python compares them: by code point, then by length
RECURSIVE str_lt(_, _)
str_lt(a, b) ==
    IF b = "" THEN FALSE
    ELSE IF a = "" THEN TRUE
    ELSE IF Ch(a, 1) = Ch(b, 1) THEN str_lt(From(a, 2), From(b, 2))
    ELSE ord(Ch(a, 1)) < ord(Ch(b, 1))

\* insertion of x into a sorted list, after the elements not greater than it
RECURSIVE insert_sorted(_, _)
insert_sorted(x, xs) ==
    IF xs = <<>> THEN <<x>>
    ELSE IF str_lt(x, Head(xs)) THEN <<x>> \o xs
    ELSE <<Head(xs)>> \o insert_sorted(x, Tail(xs))

\* sorted(xs) on a list of str
RECURSIVE sorted(_)
sorted(xs) ==
    IF xs = <<>> THEN <<>>
    ELSE insert_sorted(xs[Len(xs)], sorted(SubSeq(xs, 1, Len(xs) - 1)))

(***************************************************************************)
(* normalize_iptables_config                                               *)
(***************************************************************************)
\* re.sub(r'--([A-Z])', r'-\1', s): leftmost matches, left to right, no overlap
RECURSIVE fix_double_dash(_)
fix_double_dash(s) ==
    IF Len(s) < 3 THEN s
    ELSE IF SubSeq(s, 1, 2) = "--" /\ Ch(s, 3) \in Upper
    THEN "-" \o Ch(s, 3) \o fix_double_dash(From(s, 4))
    ELSE Ch(s, 1) \o fix_double_dash(From(s, 2))

\* re.sub(r'\s+', ' ', s)
RECURSIVE collapse_spaces(_)
collapse_spaces(s) ==
    IF s = "" THEN ""
    ELSE IF Ch(s, 1) \in Space THEN " " \o collapse_spaces(lstrip(s))
    ELSE Ch(s, 1) \o collapse_spaces(From(s, 2))

\* the test of line 93: the line is neither blank nor a comment line
keeps_line(line) == strip(line) # "" /\ ~startswith(strip(line), "#")

\* lines 95-97, for one kept line
normalize_line(line) == collapse_spaces(fix_double_dash(strip(line)))

\* lines 90-98: the kept lines, normalized, in input order
RECURSIVE normalized_lines(_)
normalized_lines(lines) ==
    IF lines = <<>> THEN <<>>
    ELSE (IF keeps_line(Head(lines)) THEN <<normalize_line(Head(lines))>>
          ELSE <<>>) \o normalized_lines(Tail(lines))

\* a normalizer that forgets the final sort
normalize_unsorted(lines) == normalized_lines(lines)

normalize_iptables_config(lines) == sorted(normalized_lines(lines))

(***************************************************************************)
(* difflib.unified_diff(before, after, lineterm=''), the standard library  *)
(* call of compare_configs: SequenceMatcher(None, a, b) with no junk,      *)
(* grouped with n = 3 lines of context. Indices are Python's, from 0.      *)
(***************************************************************************)
\* lines of context of unified_diff (its default n)
ContextLines == 3

Max2(x, y) == IF x >= y THEN x ELSE y

Min2(x, y) == IF x <= y THEN x ELSE y

\* length of the common run a[i:] / b[j:] inside a[:ahi], b[:bhi]
RECURSIVE run_length(_, _, _, _, _, _)
run_length(a, b, i, j, ahi, bhi) ==
    IF i < ahi /\ j < bhi /\ a[i + 1] = b[j + 1]
    THEN 1 + run_length(a, b, i + 1, j + 1, ahi, bhi)
    ELSE 0

\* SequenceMatcher.find_longest_match: the longest block; of those the one
\* starting earliest in a, then earliest in b; (alo, blo, 0) when none
find_longest_match(a, b, alo, ahi, blo, bhi) ==
    LET starts == (alo..(ahi - 1)) \X (blo..(bhi - 1))
        size(p) == run_length(a, b, p[1], p[2], ahi, bhi)
        longest == {p \in starts : size(p) > 0 /\
                        \A q \in starts : size(q) <= size(p)}
        first == CHOOSE p \in longest : \A q \in longest :
                     p[1] < q[1] \/ (p[1] = q[1] /\ p[2] <= q[2])
    IN  IF longest = {} THEN <<alo, blo, 0>>
        ELSE <<first[1], first[2], size(first)>>

\* SequenceMatcher.get_matching_blocks without its final (la, lb, 0): the
\* longest block, then the blocks to its left and to its right, in order
RECURSIVE matching_blocks(_, _, _, _, _, _)
matching_blocks(a, b, alo, ahi, blo, bhi) ==
    LET m == find_longest_match(a, b, alo, ahi, blo, bhi)
        i == m[1]
        j == m[2]
        k == m[3]
    IN  IF k = 0 THEN <<>>
        ELSE (IF alo < i /\ blo < j
              THEN matching_blocks(a, b, alo, i, blo, j) ELSE <<>>)
             \o <<m>>
             \o (IF i + k < ahi /\ j + k < bhi
                 THEN matching_blocks(a, b, i + k, ahi, j + k, bhi) ELSE <<>>)

get_matching_blocks(a, b) ==
    matching_blocks(a, b, 0, Len(a), 0, Len(b)) \o <<<<Len(a), Len(b), 0>>>>

Opcode(tag, i1, i2, j1, j2) ==
    [tag |-> tag, i1 |-> i1, i2 |-> i2, j1 |-> j1, j2 |-> j2]

\* SequenceMatcher.get_opcodes: the loop over the matching blocks from
\* block number n on, with i and j the ends of the previous block
RECURSIVE opcodes_from(_, _, _, _)
opcodes_from(blocks, n, i, j) ==
    IF n > Len(blocks) THEN <<>>
    ELSE LET ai == blocks[n][1]
             bj == blocks[n][2]
             size == blocks[n][3]
             tag == IF i < ai /\ j < bj THEN "replace"
                    ELSE IF i < ai THEN "delete"
                    ELSE IF j < bj THEN "insert"
                    ELSE ""
         IN  (IF tag # "" THEN <<Opcode(tag, i, ai, j, bj)>> ELSE <<>>)
             \o (IF size > 0
                 THEN <<Opcode("equal", ai, ai + size, bj, bj + size)>>
                 ELSE <<>>)
             \o opcodes_from(blocks, n + 1, ai + size, bj + size)

get_opcodes(a, b) == opcodes_from(get_matching_blocks(a, b), 1, 0, 0)

\* get_grouped_opcodes: the leading and trailing equal ranges cut to n lines
fixup_ends(codes, n) ==
    LET c1 == IF codes[1].tag = "equal"
              THEN [codes EXCEPT
                      ![1].i1 = Max2(codes[1].i1, codes[1].i2 - n),
                      ![1].j1 = Max2(codes[1].j1, codes[1].j2 - n)]
              ELSE codes
        e == Len(c1)
    IN  IF c1[e].tag = "equal"
        THEN [c1 EXCEPT ![e].i2 = Min2(c1[e].i2, c1[e].i1 + n),
                        ![e].j2 = Min2(c1[e].j2, c1[e].j1 + n)]
        ELSE c1

\* get_grouped_opcodes: the loop from code number k on, group being the
\* group under construction; an equal range longer than 2n ends a group
RECURSIVE grouped_from(_, _, _, _)
grouped_from(codes, k, group, n) ==
    IF k > Len(codes)
    THEN IF group # <<>> /\ ~(Len(group) = 1 /\ group[1].tag = "equal")
         THEN <<group>> ELSE <<>>
    ELSE LET c == codes[k]
         IN  IF c.tag = "equal" /\ c.i2 - c.i1 > n + n
             THEN <<Append(group, Opcode("equal", c.i1, Min2(c.i2, c.i1 + n),
                                         c.j1, Min2(c.j2, c.j1 + n)))>>
                  \o grouped_from(codes, k + 1,
                        <<Opcode("equal", Max2(c.i1, c.i2 - n), c.i2,
                                 Max2(c.j1, c.j2 - n), c.j2)>>, n)
             ELSE grouped_from(codes, k + 1, Append(group, c), n)

\* get_grouped_opcodes that also yields a group made of one equal range
get_grouped_opcodes_with_equal(a, b, n) ==
    LET codes == get_opcodes(a, b)
        fixed == fixup_ends(IF codes = <<>>
                            THEN <<Opcode("equal", 0, 1, 0, 1)>>
                            ELSE codes, n)
        groups == grouped_from(fixed, 1, <<>>, n)
    IN  IF groups = <<>> THEN <<fixed>> ELSE groups

get_grouped_opcodes(a, b, n) ==
    LET codes == get_opcodes(a, b)
    IN  grouped_from(fixup_ends(IF codes = <<>>
                                THEN <<Opcode("equal", 0, 1, 0, 1)>>
                                ELSE codes, n), 1, <<>>, n)

\* difflib._format_range_unified
format_range_unified(start, stop) ==
    LET length == stop - start
    IN  IF length = 1 THEN ToString(start + 1)
        ELSE IF length = 0 THEN ToString(start) \o ",0"
        ELSE ToString(start + 1) \o "," \o ToString(length)

\* the lines xs[lo:hi], each behind the marker
marked(marker, xs, lo, hi) ==
    [k \in 1..(hi - lo) |-> marker \o xs[lo + k]]

\* the content lines of one opcode
opcode_lines(a, b, c) ==
    IF c.tag = "equal" THEN marked(" ", a, c.i1, c.i2)
    ELSE (IF c.tag \in {"replace", "delete"}
          THEN marked("-", a, c.i1, c.i2) ELSE <<>>)
         \o (IF c.tag \in {"replace", "insert"}
             THEN marked("+", b, c.j1, c.j2) ELSE <<>>)

RECURSIVE group_lines(_, _, _, _)
group_lines(a, b, group, k) ==
    IF k > Len(group) THEN <<>>
    ELSE opcode_lines(a, b, group[k]) \o group_lines(a, b, group, k + 1)

\* the hunk header and the content lines of one group
hunk(a, b, group) ==
    LET first == group[1]
        last == group[Len(group)]
    IN  <<"@@ -" \o format_range_unified(first.i1, last.i2)
          \o " +" \o format_range_unified(first.j1, last.j2) \o " @@">>
        \o group_lines(a, b, group, 1)

RECURSIVE hunks(_, _, _, _)
hunks(a, b, groups, k) ==
    IF k > Len(groups) THEN <<>>
    ELSE hunk(a, b, groups[k]) \o hunks(a, b, groups, k + 1)

\* list(difflib.unified_diff(a, b, lineterm='')): the two file-header
\* lines, written once before the first hunk, then the hunks
unified_diff(a, b) ==
    LET groups == get_grouped_opcodes(a, b, ContextLines)
    IN  IF groups = <<>> THEN <<>>
        ELSE <<"--- ", "+++ ">> \o hunks(a, b, groups, 1)

(***************************************************************************)
(* compare_configs                                                         *)
(***************************************************************************)
\* line 116: the diff lines that start with neither '---' nor '+++'
RECURSIVE without_headers(_)
without_headers(lines) ==
    IF lines = <<>> THEN <<>>
    ELSE (IF ~startswith(Head(lines), "---") /\ ~startswith(Head(lines), "+++")
          THEN <<Head(lines)>> ELSE <<>>) \o without_headers(Tail(lines))

compare_configs(before, after) == without_headers(unified_diff(before, after))

(***************************************************************************)
(* Regular expressions. A pattern is a sequence of nodes; re.search is     *)
(* decided on the set of positions a match can end at.                     *)
(***************************************************************************)
Lit(s) == [k |-> "lit", s |-> s]

Cls(c) == [k |-> "cls", c |-> c]

Dot == [k |-> "dot"]

Star(r) == [k |-> "star", r |-> r]

Plus(r) == [k |-> "plus", r |-> r]

Alt(rs) == [k |-> "alt", rs |-> rs]

Eol == [k |-> "eol"]

\* \s+, \s*, \w+, [0-9]+, .*
Spaces1 == Plus(<<Cls(Space)>>)

Spaces0 == Star(<<Cls(Space)>>)

Word1 == Plus(<<Cls(Word)>>)

Digits1 == Plus(<<Cls(Digit)>>)

AnyStar == Star(<<Dot>>)

RECURSIVE match_ends(_, _, _)
RECURSIVE node_ends(_, _, _)
RECURSIVE star_ends(_, _, _)

\* the positions after one node, matched from a position of P ('.' matches
\* all but a newline; '$' matches at the end and before a final newline)
node_ends(n, s, P) ==
    CASE n.k = "lit" ->
           {p + Len(n.s) : p \in {q \in P :
               /\ q + Len(n.s) - 1 <= Len(s)
               /\ SubSeq(s, q, q + Len(n.s) - 1) = n.s}}
      [] n.k = "cls" ->
           {p + 1 : p \in {q \in P : q <= Len(s) /\ Ch(s, q) \in n.c}}
      [] n.k = "dot" ->
           {p + 1 : p \in {q \in P : q <= Len(s) /\ Ch(s, q) # "\n"}}
      [] n.k = "star" -> star_ends(n.r, s, P)
      [] n.k = "plus" -> star_ends(n.r, s, match_ends(n.r, s, P))
      [] n.k = "alt" -> UNION {match_ends(n.rs[i], s, P) : i \in DOMAIN n.rs}
      [] n.k = "eol" ->
           {q \in P : q = Len(s) + 1 \/ (q = Len(s) /\ Ch(s, q) = "\n")}

star_ends(r, s, P) ==
    LET Q == P \cup match_ends(r, s, P)
    IN  IF Q = P THEN P ELSE star_ends(r, s, Q)

match_ends(r, s, P) ==
    IF Len(r) = 0 \/ P = {} THEN P
    ELSE match_ends(Tail(r), s, node_ends(Head(r), s, P))

\* bool(re.search(r, s))
re_search(r, s) == match_ends(r, s, 1..(Len(s) + 1)) # {}

\* number of characters of class C from position i of s on
RECURSIVE span(_, _, _)
span(s, i, C) ==
    IF i <= Len(s) /\ Ch(s, i) \in C THEN 1 + span(s, i + 1, C) ELSE 0

\* int(s) for a string of digits
RECURSIVE int(_)
int(s) ==
    IF s = "" THEN 0
    ELSE 10 * int(SubSeq(s, 1, Len(s) - 1))
         + (CHOOSE d \in 0..9 : ToString(d) = Ch(s, Len(s)))

\* 'sub in s'
contains(s, sub) ==
    \E i \in 1..(Len(s) - Len(sub) + 1) : SubSeq(s, i, i + Len(sub) - 1) = sub

(***************************************************************************)
(* is_iptables_file                                                        *)
(***************************************************************************)
iptables_patterns == <<
    <<Lit("iptables")>>,
    <<Lit("-A"), Spaces1, Word1>>,
    <<Lit("-p"), Spaces1, Word1>>,
    <<Lit("--dport")>>,
    <<Lit("--sport")>>,
    <<Lit("-j"), Spaces1, Word1>>,
    <<Alt(<< <<Lit("ACCEPT")>>, <<Lit("DROP")>>, <<Lit("REJECT")>> >>)>> >>

\* line 37
threshold == 3

\* lines 40-43: the line matches one of the patterns
matches_iptables(line) ==
    \E i \in DOMAIN iptables_patterns : re_search(iptables_patterns[i], line)

\* lines 39-48: the loop from line number n on, matches counted so far
RECURSIVE scan_content(_, _, _)
scan_content(content, n, matches) ==
    IF n > Len(content) THEN FALSE
    ELSE LET m == matches + (IF matches_iptables(content[n]) THEN 1 ELSE 0)
         IN  IF m >= threshold THEN TRUE
             ELSE scan_content(content, n + 1, m)

\* a detector that counts every signature a line matches
is_iptables_file_per_signature(content) ==
    Cardinality({m \in (DOMAIN content) \X (DOMAIN iptables_patterns) :
                    re_search(iptables_patterns[m[2]], content[m[1]])})
        >= threshold

is_iptables_file(content) ==
    IF content = <<>> THEN FALSE ELSE scan_content(content, 1, 0)

(***************************************************************************)
(* re.search(r'--dport\s+(\d+)(?:-(\d+))?', line) of detect_security_risks *)
(* and group_rules: the leftmost match, each repetition as long as it can  *)
(* be; group 2 is "" when the optional part did not match (None).          *)
(***************************************************************************)
no_port_match == [found |-> FALSE, g0 |-> "", g1 |-> "", g2 |-> ""]

\* the match starting at position i, or found = FALSE
port_match_at(line, i) ==
    LET sp == span(line, i + 7, Space)
        d1 == span(line, i + 7 + sp, Digit)
        e1 == i + 7 + sp + d1
        d2 == IF e1 <= Len(line) /\ Ch(line, e1) = "-"
              THEN span(line, e1 + 1, Digit) ELSE 0
        e2 == IF d2 > 0 THEN e1 + 1 + d2 ELSE e1
    IN  IF /\ i + 6 <= Len(line)
           /\ SubSeq(line, i, i + 6) = "--dport"
           /\ sp > 0
           /\ d1 > 0
        THEN [found |-> TRUE,
              g0 |-> SubSeq(line, i, e2 - 1),
              g1 |-> SubSeq(line, e1 - d1, e1 - 1),
              g2 |-> IF d2 > 0 THEN SubSeq(line, e1 + 1, e2 - 1) ELSE ""]
        ELSE no_port_match

port_search(line) ==
    LET starts == {i \in 1..Len(line) : port_match_at(line, i).found}
    IN  IF starts = {} THEN no_port_match
        ELSE port_match_at(line, CHOOSE i \in starts : \A j \in starts : i <= j)

\* re.search(r'-A\s+(\w+)', line) of group_rules: group 1 of the leftmost
\* match, "" when there is none
chain_match_at(line, i) ==
    LET sp == span(line, i + 2, Space)
        w == span(line, i + 2 + sp, Word)
    IN  IF /\ i + 1 <= Len(line)
           /\ SubSeq(line, i, i + 1) = "-A"
           /\ sp > 0
           /\ w > 0
        THEN SubSeq(line, i + 2 + sp, i + 1 + sp + w)
        ELSE ""

chain_search(line) ==
    LET starts == {i \in 1..Len(line) : chain_match_at(line, i) # ""}
    IN  IF starts = {} THEN ""
        ELSE chain_match_at(line, CHOOSE i \in starts : \A j \in starts : i <= j)

(***************************************************************************)
(* detect_security_risks                                                   *)
(***************************************************************************)
critical_ports ==
    22 :> "SSH - Used for remote access, often targeted by attackers."
 @@ 80 :> "HTTP - Often unencrypted, vulnerable to various attacks."
 @@ 443 :> "HTTPS - Critical for secure web traffic, targeted for MiTM attacks."
 @@ 8080 :> "HTTP Proxy - Can bypass normal firewall rules, potentially dangerous."
 @@ 53 :> "DNS - Can be used for DNS amplification attacks."
 @@ 3306 :> "MySQL - Often targeted in brute force attacks."
 @@ 21 :> "FTP - Unencrypted file transfers, vulnerable to interception."
 @@ 23 :> "Telnet - Unencrypted communication, easily intercepted."
 @@ 1433 :> "MS SQL Server - Database often targeted."
 @@ 3389 :> "RDP - Remote desktop access, vulnerable to brute force attacks."
 @@ 5432 :> "PostgreSQL - Target database for attacks."
 @@ 27017 :> "MongoDB - NoSQL database, often misconfigured."

Risk(re, description) == [re |-> re, description |-> description]

JAccept == <<Lit("-j"), Spaces1, Lit("ACCEPT")>>

JAcceptEnd == JAccept \o <<Spaces0, Eol>>

AInput == <<Lit("iptables"), AnyStar, Lit("-A"), Spaces1, Lit("INPUT")>>

DportOf(value) == <<Lit("iptables"), AnyStar, Lit("--dport"), Spaces1>> \o value

risky_patterns == <<
    Risk(<<Lit("iptables"), AnyStar>> \o JAcceptEnd,
         "High risk: Unconditional acceptance rule without restrictions"),
    Risk(AInput \o <<AnyStar>> \o JAcceptEnd,
         "Medium risk: Input acceptance rule without specific filters"),
    Risk(<<Lit("iptables"), AnyStar, Lit("-A"), Spaces1, Lit("FORWARD"), AnyStar>>
         \o JAcceptEnd,
         "High risk: Forwarding rule without restrictions, potential pivot point"),
    Risk(DportOf(<<Lit("0:65535")>>),
         "Critical risk: Complete port range open"),
    Risk(DportOf(<<Lit("1:1024")>>),
         "High risk: All privileged ports open"),
    Risk(DportOf(<<Digits1, Lit(":"), Digits1>>),
         "Medium risk: Port range detected, verify if necessary"),
    Risk(<<Lit("iptables"), AnyStar, Lit("-s"), Spaces1, Lit("0.0.0.0/0"), AnyStar>>
         \o JAccept,
         "High risk: Accepting traffic from any source IP"),
    Risk(AInput \o <<Spaces1, Lit("-s"), Spaces1, Lit("192.168."), Digits1,
                     Lit("."), Digits1, Lit("/"), Digits1, AnyStar>> \o JAccept,
         "Low risk: Private network access rule, verify scope"),
    Risk(<<Lit("iptables"), AnyStar, Lit("-j"), Spaces1, Lit("DROP"), AnyStar,
           Lit("--state"), Spaces1, Lit("INVALID")>>,
         "Medium risk: Security rule for invalid packets modified/removed"),
    Risk(<<Lit("iptables"), AnyStar, Lit("-j"), Spaces1, Lit("DROP"), AnyStar,
           Lit("--state"), Spaces1, Lit("NEW"), AnyStar, Lit("-m"), Spaces1,
           Lit("state"), Spaces1, Lit("--state"), Spaces1, Lit("ESTABLISHED")>>,
         "High risk: State tracking rule modified/removed"),
    Risk(<<Lit("iptables"), AnyStar, Lit(":INPUT"), Spaces1, Lit("ACCEPT")>>,
         "High risk: Default INPUT policy set to ACCEPT"),
    Risk(<<Lit("iptables"), AnyStar, Lit(":FORWARD"), Spaces1, Lit("ACCEPT")>>,
         "High risk: Default FORWARD policy set to ACCEPT"),
    Risk(AInput \o <<AnyStar, Lit("--dport"), Spaces1, Lit("3389"), AnyStar>>
         \o JAccept,
         "Medium risk: RDP port opened, vulnerable to brute force"),
    Risk(AInput \o <<AnyStar, Lit("--dport"), Spaces1, Lit("22"), AnyStar>>
         \o JAcceptEnd,
         "Medium risk: SSH port opened without IP restriction"),
    Risk(AInput \o <<AnyStar, Lit("--dport"), Spaces1,
                     Alt(<< <<Lit("1433")>>, <<Lit("3306")>>, <<Lit("5432")>>,
                            <<Lit("27017")>> >>), AnyStar>> \o JAcceptEnd,
         "High risk: Database port exposed without restrictions") >>

\* lines 179-181: the findings of range(start_port, end_port + 1)
RECURSIVE range_findings(_, _, _)
range_findings(line, port, end_port) ==
    IF port > end_port THEN <<>>
    ELSE (IF port \in DOMAIN critical_ports
          THEN <<"[bold red]Security Risk Detected![/bold red] - "
                 \o strip(line) \o " (Port " \o ToString(port) \o ": "
                 \o critical_ports[port] \o ")">>
          ELSE <<>>) \o range_findings(line, port + 1, end_port)

\* lines 174-185: the port check of one added line
port_findings(line) ==
    LET port_match == port_search(line)
    IN  IF ~port_match.found THEN <<>>
        ELSE IF port_match.g2 # ""
        THEN range_findings(line, int(port_match.g1), int(port_match.g2))
        ELSE IF int(port_match.g1) \in DOMAIN critical_ports
        THEN <<"[bold red]Security Risk Detected![/bold red] - "
               \o strip(line) \o " ("
               \o critical_ports[int(port_match.g1)] \o ")">>
        ELSE <<>>

\* lines 188-190: the pattern check of one added line, from pattern n on
RECURSIVE pattern_findings(_, _)
pattern_findings(line, n) ==
    IF n > Len(risky_patterns) THEN <<>>
    ELSE (IF re_search(risky_patterns[n].re, line)
          THEN <<"[bold yellow]Potential Risk![/bold yellow] - "
                 \o strip(line) \o " (" \o risky_patterns[n].description \o ")">>
          ELSE <<>>) \o pattern_findings(line, n + 1)

\* a classifier that inspects the removed lines as well
line_findings_any_change(line) ==
    IF startswith(line, "+") \/ startswith(line, "-")
    THEN port_findings(line) \o pattern_findings(line, 1)
    ELSE <<>>

\* lines 172-190: the findings of one diff line
line_findings(line) ==
    IF startswith(line, "+")
    THEN port_findings(line) \o pattern_findings(line, 1)
    ELSE <<>>

RECURSIVE detect_security_risks(_)
detect_security_risks(diff_lines) ==
    IF diff_lines = <<>> THEN <<>>
    ELSE line_findings(Head(diff_lines))
         \o detect_security_risks(Tail(diff_lines))

(***************************************************************************)
(* group_rules. A dict is the sequence of its items [key, rules], in       *)
(* insertion order.                                                        *)
(***************************************************************************)
has_key(d, key) == \E i \in DOMAIN d : d[i].key = key

\* d.setdefault(key, []).append(rule), as lines 209-211 and 220-222 do it
dict_append(d, key, rule) ==
    IF has_key(d, key)
    THEN [i \in DOMAIN d |->
            IF d[i].key = key
            THEN [key |-> key, rules |-> Append(d[i].rules, rule)]
            ELSE d[i]]
    ELSE Append(d, [key |-> key, rules |-> <<rule>>])

\* the port key of line 208: group 0 of the port match
port_key(line) == port_search(line).g0

\* lines 203-211: the loop from line number n on
RECURSIVE port_groups_from(_, _, _)
port_groups_from(diff_lines, n, grouped) ==
    IF n > Len(diff_lines) THEN grouped
    ELSE LET line == diff_lines[n]
         IN  port_groups_from(diff_lines, n + 1,
                IF startswith(line, "+") /\ port_search(line).found
                THEN dict_append(grouped, port_key(line), strip(line))
                ELSE grouped)

port_groups(diff_lines) == port_groups_from(diff_lines, 1, <<>>)

\* lines 214-222: the loop from line number n on
RECURSIVE chain_groups_from(_, _, _)
chain_groups_from(diff_lines, n, chain_grouped) ==
    IF n > Len(diff_lines) THEN chain_grouped
    ELSE LET line == diff_lines[n]
         IN  chain_groups_from(diff_lines, n + 1,
                IF startswith(line, "+") /\ chain_search(line) # ""
                THEN dict_append(chain_grouped, chain_search(line), strip(line))
                ELSE chain_grouped)

chain_groups(diff_lines) == chain_groups_from(diff_lines, 1, <<>>)

\* the rules of one group, indented
indented(rules) == [i \in DOMAIN rules |-> "    " \o rules[i]]

\* lines 230-233 and 238-241: the lines of the groups from group n on
RECURSIVE render_groups(_, _, _)
render_groups(d, n, prefix) ==
    IF n > Len(d) THEN <<>>
    ELSE <<"[bold green]" \o prefix \o d[n].key \o " Rules[/bold green]:">>
         \o indented(d[n].rules) \o render_groups(d, n + 1, prefix)

group_rules(diff_lines) ==
    LET grouped == port_groups(diff_lines)
        chain_grouped == chain_groups(diff_lines)
    IN  (IF grouped # <<>>
         THEN <<"[bold blue]--- Rules Grouped by Port ---[/bold blue]">>
              \o render_groups(grouped, 1, "")
         ELSE <<>>)
        \o (IF chain_grouped # <<>>
            THEN <<"\n[bold blue]--- Rules Grouped by Chain ---[/bold blue]">>
                 \o render_groups(chain_grouped, 1, "Chain ")
            ELSE <<>>)

(***************************************************************************)
(* calculate_impact_metrics. The weights and the expected score are kept   *)
(* doubled, and chaos_score in hundredths, so that all values are integers.*)
(***************************************************************************)
\* line 257: weight_add = 1.5, doubled
weight_add_x2 == 3

\* line 258: weight_remove = 1.0, doubled
weight_remove_x2 == 2

\* line 263: max_expected_score = 50, doubled
base_expected_x2 == 100

\* line 266: the ceiling 200 of max_expected_score, doubled
cap_expected_x2 == 400

\* line 269: the ceiling 100 of the scaled score, in hundredths
cap_score_x100 == 10000

is_added(line) == startswith(line, "+")

is_removed(line) == startswith(line, "-")

is_changed(line) == is_added(line) \/ is_removed(line)

is_counted(line) == is_changed(line) \/ startswith(line, " ")

\* line 253
add_count(diff_lines) ==
    Cardinality({i \in DOMAIN diff_lines : is_added(diff_lines[i])})

\* line 254
remove_count(diff_lines) ==
    Cardinality({i \in DOMAIN diff_lines : is_removed(diff_lines[i])})

\* line 264
total_lines(diff_lines) ==
    Cardinality({i \in DOMAIN diff_lines : is_counted(diff_lines[i])})

\* lines 263-266, doubled: max(50, min(200, total_lines / 2))
max_expected_score_x2(n_lines) ==
    IF n_lines > 0
    THEN Max2(base_expected_x2, Min2(cap_expected_x2, n_lines))
    ELSE base_expected_x2

\* a scaling that forgets min(100, ...)
scaled_chaos_uncapped(chaos_x2, expected_x2, tie_up) ==
    LET num == chaos_x2 * cap_score_x100
        q == num \div expected_x2
        r == num % expected_x2
    IN  IF 2 * r < expected_x2 THEN q
        ELSE IF 2 * r > expected_x2 THEN q + 1
        ELSE IF tie_up THEN q + 1 ELSE q

\* lines 269 and 277: round(min(100, chaos_score / max_expected_score * 100), 2)
\* in hundredths. A quotient exactly halfway between two hundredths is
\* rounded on its floating-point value, which may lie on either side:
\* tie_up says which.
scaled_chaos_x100(chaos_x2, expected_x2, tie_up) ==
    LET num == chaos_x2 * cap_score_x100
        q == num \div expected_x2
        r == num % expected_x2
    IN  IF q >= cap_score_x100 THEN cap_score_x100
        ELSE IF 2 * r < expected_x2 THEN q
        ELSE IF 2 * r > expected_x2 THEN q + 1
        ELSE IF tie_up THEN q + 1 ELSE q

\* lines 272-274: the changed lines that contain the name of the chain
chain_changes(diff_lines, chain) ==
    Cardinality({i \in DOMAIN diff_lines :
        is_changed(diff_lines[i]) /\ contains(diff_lines[i], chain)})

calculate_impact_metrics(diff_lines, tie_up) ==
    LET chaos_x2 == add_count(diff_lines) * weight_add_x2
                    + remove_count(diff_lines) * weight_remove_x2
    IN  [chaos_score |-> scaled_chaos_x100(chaos_x2,
                             max_expected_score_x2(total_lines(diff_lines)),
                             tie_up),
         additions |-> add_count(diff_lines),
         removals |-> remove_count(diff_lines),
         input_changes |-> chain_changes(diff_lines, "INPUT"),
         output_changes |-> chain_changes(diff_lines, "OUTPUT"),
         forward_changes |-> chain_changes(diff_lines, "FORWARD")]

(***************************************************************************)
(* main: the suffix check of lines 498-516.                                *)
(***************************************************************************)
\* str.rfind(c), from 0; -1 when c does not occur
RECURSIVE rfind(_, _)
rfind(s, c) ==
    IF s = "" THEN -1
    ELSE IF Ch(s, Len(s)) = c THEN Len(s) - 1
    ELSE rfind(SubSeq(s, 1, Len(s) - 1), c)

\* Path(p).name for a path with no trailing separator
path_name(p) == From(p, rfind(p, "/") + 2)

\* Path(p).suffix: the name from its last dot on, unless the dot is the
\* first or the last character of the name
path_suffix(p) ==
    LET name == path_name(p)
        i == rfind(name, ".")
    IN  IF 0 < i /\ i < Len(name) - 1 THEN From(name, i + 1) ELSE ""

UpperAZ == "ABCDEFGHIJKLMNOPQRSTUVWXYZ"

LowerAZ == "abcdefghijklmnopqrstuvwxyz"

\* str.lower, on ASCII
RECURSIVE lower(_)
lower(s) ==
    IF s = "" THEN ""
    ELSE (IF Ch(s, 1) \in Upper
          THEN Ch(LowerAZ, CHOOSE i \in 1..26 : Ch(UpperAZ, i) = Ch(s, 1))
          ELSE Ch(s, 1)) \o lower(From(s, 2))

\* line 499
valid_extensions == {".txt", ".rules", ".iptables"}

extension_error(path) ==
    IF lower(path_suffix(path)) \notin valid_extensions
    THEN <<"The file " \o path \o " does not have a valid extension. "
           \o "Valid extensions are: .txt, .rules, .iptables">>
    ELSE <<>>

\* a check that stops at the first bad suffix
extension_errors_first_only(a) ==
    IF extension_error(a.before) # <<>> THEN extension_error(a.before)
    ELSE extension_error(a.after)

\* lines 500-509
extension_errors(a) == extension_error(a.before) \o extension_error(a.after)

format_error(path, content) ==
    IF ~is_iptables_file(content)
    THEN <<"The file " \o path
           \o " does not appear to be an iptables configuration.">>
    ELSE <<>>

\* a validation that looks at the first file only
format_errors_before_only(a, before, after) == format_error(a.before, before)

\* lines 525-531
format_errors(a, before, after) ==
    format_error(a.before, before) \o format_error(a.after, after)

\* the error panels of lines 514-515 and 535-536
error_panels(errors) == [i \in DOMAIN errors |-> "error: " \o errors[i]]

(***************************************************************************)
(* main, one action for each stage.                                        *)
(***************************************************************************)
\* lines 498-516
CheckExtensions ==
    /\ pc = "start"
    /\ validation_errors' = extension_errors(args)
    /\ IF validation_errors' # <<>>
       THEN /\ log' = log \o error_panels(validation_errors')
            /\ ret' = 1
            /\ pc' = "done"
       ELSE /\ pc' = "read"
            /\ UNCHANGED <<log, ret>>
    /\ UNCHANGED <<args, fs, before_lines, after_lines, renormalized, diff,
                   risky_changes, grouped_rules, metrics>>

\* lines 519-522, and the handler of lines 565-568 when a file is missing
ReadFiles ==
    /\ pc = "read"
    /\ IF ~fs.before.exists
       THEN /\ log' = log \o <<"panel: Reading configurations...",
                               "error: File not found: " \o args.before>>
            /\ ret' = 1
            /\ pc' = "done"
            /\ UNCHANGED <<before_lines, after_lines>>
       ELSE IF ~fs.after.exists
       THEN /\ log' = log \o <<"panel: Reading configurations...",
                               "read " \o args.before,
                               "error: File not found: " \o args.after>>
            /\ before_lines' = fs.before.lines
            /\ ret' = 1
            /\ pc' = "done"
            /\ UNCHANGED after_lines
       ELSE /\ log' = log \o <<"panel: Reading configurations...",
                               "read " \o args.before, "read " \o args.after>>
            /\ before_lines' = fs.before.lines
            /\ after_lines' = fs.after.lines
            /\ pc' = "validate"
            /\ UNCHANGED ret
    /\ UNCHANGED <<args, fs, renormalized, validation_errors, diff,
                   risky_changes, grouped_rules, metrics>>

\* lines 524-537
ValidateFormat ==
    /\ pc = "validate"
    /\ validation_errors' = format_errors(args, before_lines, after_lines)
    /\ IF validation_errors' # <<>>
       THEN /\ log' = log \o <<"call is_iptables_file", "call is_iptables_file">>
                          \o error_panels(validation_errors')
            /\ ret' = 1
            /\ pc' = "done"
       ELSE /\ log' = log \o <<"call is_iptables_file", "call is_iptables_file">>
            /\ pc' = "normalize"
            /\ UNCHANGED ret
    /\ UNCHANGED <<args, fs, before_lines, after_lines, renormalized, diff,
                   risky_changes, grouped_rules, metrics>>

\* lines 539-542
Normalize ==
    /\ pc = "normalize"
    /\ IF args.no_normalize
       THEN UNCHANGED <<before_lines, after_lines, log>>
       ELSE /\ before_lines' = normalize_iptables_config(before_lines)
            /\ after_lines' = normalize_iptables_config(after_lines)
            /\ log' = log \o <<"call normalize_iptables_config",
                               "call normalize_iptables_config">>
    /\ pc' = "compare"
    /\ UNCHANGED <<args, fs, renormalized, validation_errors, diff,
                   risky_changes, grouped_rules, metrics, ret>>

\* lines 545-551
Compare ==
    /\ pc = "compare"
    /\ diff' = compare_configs(before_lines, after_lines)
    /\ IF diff' = <<>>
       THEN /\ log' = log \o <<"panel: Comparing configurations...",
                   "call compare_configs",
                   "panel: No differences detected between the configurations.">>
            /\ ret' = 0
            /\ pc' = "done"
       ELSE /\ log' = log \o <<"panel: Comparing configurations...",
                               "call compare_configs">>
            /\ pc' = "detect"
            /\ UNCHANGED ret
    /\ UNCHANGED <<args, fs, before_lines, after_lines, renormalized,
                   validation_errors, risky_changes, grouped_rules, metrics>>

\* lines 554-555
Detect ==
    /\ pc = "detect"
    /\ risky_changes' = detect_security_risks(diff)
    /\ log' = log \o <<"panel: Analyzing changes...",
                       "call detect_security_risks">>
    /\ pc' = "group"
    /\ UNCHANGED <<args, fs, before_lines, after_lines, renormalized,
                   validation_errors, diff, grouped_rules, metrics, ret>>

\* line 556
Group ==
    /\ pc = "group"
    /\ grouped_rules' = group_rules(diff)
    /\ log' = Append(log, "call group_rules")
    /\ pc' = "score"
    /\ UNCHANGED <<args, fs, before_lines, after_lines, renormalized,
                   validation_errors, diff, risky_changes, metrics, ret>>

\* line 557
Score ==
    /\ pc = "score"
    /\ \E tie_up \in BOOLEAN :
          metrics' = calculate_impact_metrics(diff, tie_up)
    /\ log' = Append(log, "call calculate_impact_metrics")
    /\ pc' = "report"
    /\ UNCHANGED <<args, fs, before_lines, after_lines, renormalized,
                   validation_errors, diff, risky_changes, grouped_rules, ret>>

\* lines 560-563: the report is written, or generate_report raises and the
\* handler of lines 569-573 returns 1
Report ==
    /\ pc = "report"
    /\ \/ /\ log' = Append(log, "call generate_report")
          /\ ret' = 0
       \/ /\ log' = log \o <<"call generate_report",
                             "error: An unexpected error occurred">>
          /\ ret' = 1
    /\ pc' = "done"
    /\ UNCHANGED <<args, fs, before_lines, after_lines, renormalized,
                   validation_errors, diff, risky_changes, grouped_rules,
                   metrics>>

\* the normalizer applied to a normalized rule set
NormalizeAgain ==
    /\ pc = "compare"
    /\ renormalized' = normalize_iptables_config(before_lines)
    /\ pc' = "renormalized"
    /\ UNCHANGED <<args, fs, before_lines, after_lines, validation_errors,
                   diff, risky_changes, grouped_rules, metrics, ret, log>>

(***************************************************************************)
(* Initial states.                                                         *)
(***************************************************************************)
\* the sequences over S of length at most n
BoundedSeq(S, n) == UNION {[1..k -> S] : k \in 0..n}

NoArgs == [before |-> "", after |-> "", no_normalize |-> FALSE]

NoMetrics == [chaos_score |-> 0, additions |-> 0, removals |-> 0,
              input_changes |-> 0, output_changes |-> 0, forward_changes |-> 0]

File(lines) == [exists |-> TRUE, lines |-> lines]

NoFile == [exists |-> FALSE, lines |-> <<>>]

\* what the run has not computed yet
Unset ==
    /\ renormalized = <<>>
    /\ validation_errors = <<>>
    /\ risky_changes = <<>>
    /\ grouped_rules = <<>>
    /\ metrics = NoMetrics
    /\ ret = -1
    /\ log = <<>>

(***************************************************************************)
(* The normalizer alone: a file is read, normalized, and normalized again. *)
(***************************************************************************)
\* raw lines as read_file returns them
RawLines == {
    "-A INPUT  -j DROP\n",
    "--A INPUT -j DROP\n",
    "---A INPUT -j DROP\n",
    "  # note\n",
    "\n",
    "-A FORWARD -j DROP # note\n" }

InitNorm ==
    /\ pc = "normalize"
    /\ args = NoArgs
    /\ \E lines \in BoundedSeq(RawLines, MaxLines) :
          /\ fs = [before |-> File(lines), after |-> File(<<>>)]
          /\ before_lines = lines
    /\ after_lines = <<>>
    /\ diff = <<>>
    /\ Unset

NextNorm == Normalize \/ NormalizeAgain

SpecNorm == InitNorm /\ [][NextNorm]_vars

(***************************************************************************)
(* The pipeline of lines 539-563 on two rule sets already read.            *)
(***************************************************************************)
Rule80 == "-A INPUT -p tcp --dport 80 -j ACCEPT\n"

Rule3389 == "-A INPUT -p tcp --dport 3389 -j ACCEPT\n"

PipeLines == {
    Rule80,
    Rule3389,
    "---A INPUT -j DROP\n",
    "iptables -A INPUT -p tcp --dport 22 -j ACCEPT\n" }

InitPipe ==
    /\ pc = "normalize"
    /\ \E flag \in BOOLEAN :
          args = [before |-> "", after |-> "", no_normalize |-> flag]
    /\ before_lines \in BoundedSeq(PipeLines, MaxPipeLines)
    /\ after_lines \in BoundedSeq(PipeLines, MaxPipeLines)
    /\ fs = [before |-> File(before_lines), after |-> File(after_lines)]
    /\ diff = <<>>
    /\ Unset

NextPipe == Normalize \/ Compare \/ Detect \/ Group \/ Score \/ Report

SpecPipe == InitPipe /\ [][NextPipe]_vars

(***************************************************************************)
(* The analysers of lines 554-557 on a diff.                               *)
(***************************************************************************)
DiffLines == {
    "@@ -1,2 +1,3 @@",
    " iptables -A INPUT -p tcp --dport 3389 -j ACCEPT",
    "-iptables -A INPUT -p tcp --dport 22 -j ACCEPT",
    "+iptables -A INPUT -p tcp --dport 22 -j ACCEPT",
    "+-A INPUT -p tcp --dport 3389 -j ACCEPT",
    "+-A INPUT -p tcp --dport 20 -j ACCEPT",
    "+-A INPUT -p tcp --dport 20:25 -j ACCEPT",
    "+-A OUTPUT -p tcp --dport 21-23 -j ACCEPT",
    "+-A FORWARD -j DROP" }

InitRisk ==
    /\ pc = "detect"
    /\ args = NoArgs
    /\ fs = [before |-> NoFile, after |-> NoFile]
    /\ before_lines = <<>>
    /\ after_lines = <<>>
    /\ Unset
    /\ diff \in BoundedSeq(DiffLines, MaxDiffLines)

NextRisk == Detect \/ Group \/ Score \/ Report

SpecRisk == InitRisk /\ [][NextRisk]_vars

(***************************************************************************)
(* The scorer of line 557 on diffs of every size: a first hunk, to which   *)
(* further lines of one kind are added, Burst at a time.                   *)
(***************************************************************************)
copies(line, n) == [i \in 1..n |-> line]

AddedLine == "+-A INPUT -j DROP"

RemovedLine == "--A OUTPUT -j DROP"

ContextLine == " -A FORWARD -j DROP"

InitScore ==
    /\ pc = "score"
    /\ args = NoArgs
    /\ fs = [before |-> NoFile, after |-> NoFile]
    /\ before_lines = <<>>
    /\ after_lines = <<>>
    /\ Unset
    /\ \E c \in 0..MaxSmall, r \in 0..MaxSmall, a \in 0..MaxSmall :
          diff = <<"@@ -1,2 +1,2 @@">> \o copies(ContextLine, c)
                 \o copies(RemovedLine, r) \o copies(AddedLine, a)

\* a larger diff is scored
Extend ==
    /\ pc = "score"
    /\ Len(diff) + Burst <= MaxBursts * Burst + 3 * MaxSmall + 1
    /\ \E line \in {AddedLine, RemovedLine, ContextLine} :
          diff' = diff \o copies(line, Burst)
    /\ UNCHANGED <<pc, args, fs, before_lines, after_lines, renormalized,
                   validation_errors, risky_changes, grouped_rules, metrics,
                   ret, log>>

NextScore == Extend \/ Score

SpecScore == InitScore /\ [][NextScore]_vars

(***************************************************************************)
(* main, from the parsed command line on.                                  *)
(***************************************************************************)
Paths == {"fw.rules", "NEW.TXT", "notes.md", "rules.d/fw"}

Rules1 == <<"# firewall\n", ":INPUT ACCEPT [0:0]\n", Rule80, "-A INPUT -j DROP\n">>

Rules2 == <<"# firewall\n", ":INPUT ACCEPT [0:0]\n", Rule80, Rule3389,
            "-A INPUT -j DROP\n">>

Notes == <<"to do\n", "ask about iptables\n", "\n">>

Files == {File(Rules1), File(Rules2), File(Notes), File(<<>>), NoFile}

InitMain ==
    /\ pc = "start"
    /\ \E b \in Paths, a \in Paths, flag \in BOOLEAN :
          args = [before |-> b, after |-> a, no_normalize |-> flag]
    /\ fs \in [before : Files, after : Files]
    /\ args.before = args.after => fs.before = fs.after
    /\ before_lines = <<>>
    /\ after_lines = <<>>
    /\ diff = <<>>
    /\ Unset

NextMain ==
    \/ CheckExtensions
    \/ ReadFiles
    \/ ValidateFormat
    \/ Normalize
    \/ Compare
    \/ Detect
    \/ Group
    \/ Score
    \/ Report

SpecMain == InitMain /\ [][NextMain]_vars

(***************************************************************************)
(* The format validation of lines 524-537 on files already read.           *)
(***************************************************************************)
RuleLine == "-A INPUT -j DROP\n"

KeywordLine == "# uses iptables\n"

PolicyLine == ":INPUT ACCEPT [0:0]\n"

FormatLines == {RuleLine, KeywordLine, PolicyLine, "-A \n", "to do\n"}

InitFormat ==
    /\ pc = "validate"
    /\ args = [before |-> "fw.rules", after |-> "NEW.TXT",
               no_normalize |-> FALSE]
    /\ before_lines \in BoundedSeq(FormatLines, MaxFormatLines)
    /\ after_lines \in {Rules1, Notes}
    /\ fs = [before |-> File(before_lines), after |-> File(after_lines)]
    /\ diff = <<>>
    /\ renormalized = <<>>
    /\ validation_errors = <<>>
    /\ risky_changes = <<>>
    /\ grouped_rules = <<>>
    /\ metrics = NoMetrics
    /\ ret = -1
    /\ log = <<"panel: Reading configurations...", "read fw.rules",
               "read NEW.TXT">>

NextFormat == ValidateFormat

SpecFormat == InitFormat /\ [][NextFormat]_vars

(***************************************************************************)
(* Properties.                                                             *)
(***************************************************************************)
\* the entries of a log that start with a prefix, in order
RECURSIVE entries(_, _)
entries(l, prefix) ==
    IF l = <<>> THEN <<>>
    ELSE (IF startswith(Head(l), prefix) THEN <<Head(l)>> ELSE <<>>)
         \o entries(Tail(l), prefix)

\* the sum of f over 1..n
RECURSIVE sum_to(_, _)
sum_to(f, n) == IF n = 0 THEN 0 ELSE f[n] + sum_to(f, n - 1)

\* C1: normalization is idempotent: normalizing a normalized rule set
\* gives the same rule set, also for lines with three or more dashes before
\* an uppercase letter.
C1_Idempotent == pc = "renormalized" => renormalized = before_lines

permuted(lines, p) == [i \in DOMAIN lines |-> lines[p[i]]]

\* C6: normalization is order-insensitive: every permutation of the input
\* lines is normalized to the same sequence as the input itself.
C6_OrderInsensitive ==
    pc # "normalize" =>
        \A p \in Permutations(DOMAIN fs.before.lines) :
            normalize_iptables_config(permuted(fs.before.lines, p)) = before_lines

\* a file whose kept lines are not in sorted order has been normalized
C6_Witness ==
    /\ pc = "compare"
    /\ Len(before_lines) >= 2
    /\ before_lines # normalized_lines(fs.before.lines)

\* the output of the unified-diff emitter without its two file-header lines
without_file_header(lines) ==
    IF Len(lines) >= 2 THEN SubSeq(lines, 3, Len(lines)) ELSE <<>>

\* C2: the differ removes only the two file-header entries: its output is
\* the emitter's output, hunk headers and content lines, in the emitter's
\* order, whatever the text of the rule lines.
C2_OnlyFileHeaderRemoved ==
    pc \notin {"normalize", "compare"} =>
        diff = without_file_header(unified_diff(before_lines, after_lines))

\* the --dport value of a line as the rule syntax writes a range, start:end;
\* found is FALSE when the line has no such range
colon_range(line) ==
    LET m == port_search(line)
        e == IF m.found
             THEN (CHOOSE i \in 1..Len(line) : port_match_at(line, i).found
                       /\ \A j \in 1..(i - 1) : ~port_match_at(line, j).found)
                  + Len(m.g0)
             ELSE 0
        d == IF m.found /\ m.g2 = "" /\ e <= Len(line) /\ Ch(line, e) = ":"
             THEN span(line, e + 1, Digit) ELSE 0
    IN  IF d > 0
        THEN [found |-> TRUE, start |-> int(m.g1),
              end |-> int(SubSeq(line, e + 1, e + d)),
              text |-> m.g0 \o SubSeq(line, e, e + d)]
        ELSE [found |-> FALSE, start |-> 0, end |-> 0, text |-> m.g0]

\* a finding of the port check for this line and this catalog port
is_port_finding(finding, line, port) ==
    /\ startswith(finding, "[bold red]Security Risk Detected![/bold red] - "
                           \o strip(line) \o " (")
    /\ contains(finding, critical_ports[port] \o ")")

\* C3: an added line whose --dport value is a range start:end gets one
\* port finding for every catalog port in the range and none for the
\* catalog ports outside it ('--dport 20:25': ports 22 and 23, not 80).
C3_ColonRangeFindings ==
    pc # "detect" =>
        \A i \in DOMAIN diff :
            startswith(diff[i], "+") /\ colon_range(diff[i]).found =>
                \A port \in DOMAIN critical_ports :
                    (colon_range(diff[i]).start <= port
                        /\ port <= colon_range(diff[i]).end)
                    <=> \E k \in DOMAIN risky_changes :
                            is_port_finding(risky_changes[k], diff[i], port)

\* an added INPUT accept rule on --dport 3389
is_rdp_accept(line) ==
    /\ startswith(line, "+")
    /\ contains(line, "-A INPUT")
    /\ contains(line, "--dport 3389")
    /\ contains(line, "-j ACCEPT")

has_rdp_finding(findings, line) ==
    \E k \in DOMAIN findings :
        /\ contains(findings[k], strip(line))
        /\ contains(findings[k], "Medium risk: RDP")

\* C4: with before = the rule on port 80 and after = before plus the rule on
\* port 3389, the diff has one '+' line, the findings include the Medium
\* risk RDP message of the pattern catalog, additions = 1, removals = 0 and
\* the chaos score is positive; and every added INPUT accept rule on
\* --dport 3389 gets that Medium risk RDP finding.
C4_RdpScenario ==
    pc \in {"report", "done"} /\ ret # 1 =>
        /\ \A i \in DOMAIN diff :
               is_rdp_accept(diff[i]) => has_rdp_finding(risky_changes, diff[i])
        /\ (fs.before.lines = <<Rule80>> /\ fs.after.lines = <<Rule80, Rule3389>>) =>
               /\ add_count(diff) = 1
               /\ \E i \in DOMAIN diff : has_rdp_finding(risky_changes, diff[i])
               /\ metrics.additions = 1
               /\ metrics.removals = 0
               /\ metrics.chaos_score > 0

\* the exact '--dport <value>' text of a line, range included
dport_text(line) == colon_range(line).text

\* the head line of a port group in the grouper's output
port_group_head(key) == "[bold green]" \o key \o " Rules[/bold green]:"

\* C5: the port key of an added line is its exact '--dport <value>' text,
\* the full range text included: two added lines are in the same port group
\* if and only if these texts are identical, and each text heads a group.
C5_ExactPortKey ==
    pc \in {"score", "report", "done"} =>
        \A i, j \in DOMAIN diff :
            (startswith(diff[i], "+") /\ port_search(diff[i]).found
                /\ startswith(diff[j], "+") /\ port_search(diff[j]).found) =>
                /\ \E k \in DOMAIN grouped_rules :
                       grouped_rules[k] = port_group_head(dport_text(diff[i]))
                /\ (port_key(diff[i]) = port_key(diff[j]))
                       <=> (dport_text(diff[i]) = dport_text(diff[j]))

\* C7: the chaos score lies in [0, 100] and is clamp(raw / baseline * 100,
\* 0, 100) to two decimals, with raw = additions * 1.5 + removals and
\* baseline = clamp(counted lines / 2, 50, 200); it is 0 exactly when the
\* diff has no '+' and no '-' line. (Doubled and in hundredths: the score
\* times the doubled baseline is within half a hundredth of the doubled raw
\* score times 100, cut at 100.)
C7_ChaosScoreRange ==
    pc = "report" =>
        LET additions == add_count(diff)
            removals == remove_count(diff)
            counted == total_lines(diff)
            raw_x2 == 3 * additions + 2 * removals
            baseline_x2 == Max2(100, Min2(400, counted))
            exact == Min2(raw_x2 * 10000, 10000 * baseline_x2)
            error == metrics.chaos_score * baseline_x2 - exact
        IN  /\ metrics.chaos_score >= 0
            /\ metrics.chaos_score <= 10000
            /\ 2 * error <= baseline_x2
            /\ 2 * error >= -baseline_x2
            /\ metrics.chaos_score = 0 <=> (additions = 0 /\ removals = 0)

\* a diff whose raw score exceeds its baseline has been scored 100
C7_Witness ==
    /\ pc = "report"
    /\ metrics.chaos_score = 10000
    /\ 3 * metrics.additions + 2 * metrics.removals
           > Max2(100, Min2(400, total_lines(diff)))

\* the catalog ports the --dport value of a line hits, the value read as the
\* classifier reads it: one port, or the ports from the first to the second
port_hits(line) ==
    LET m == port_search(line)
    IN  IF ~m.found THEN {}
        ELSE IF m.g2 = "" THEN {int(m.g1)} \cap DOMAIN critical_ports
        ELSE {port \in DOMAIN critical_ports :
                  int(m.g1) <= port /\ port <= int(m.g2)}

\* the catalog patterns a line matches
pattern_hits(line) ==
    {k \in DOMAIN risky_patterns : re_search(risky_patterns[k].re, line)}

\* the number of findings an added line is due; none for any other line
findings_due(line) ==
    IF startswith(line, "+")
    THEN Cardinality(port_hits(line)) + Cardinality(pattern_hits(line))
    ELSE 0

\* C8: every finding belongs to a diff line that begins with '+'; context
\* lines, removed lines and hunk headers produce none; and none is dropped
\* as a duplicate: the findings number, over the added lines, the catalog
\* ports hit plus the catalog patterns matched.
C8_OnlyAddedLinesNoDedup ==
    pc = "group" =>
        /\ \A k \in DOMAIN risky_changes :
               \E i \in DOMAIN diff :
                   /\ startswith(diff[i], "+")
                   /\ contains(risky_changes[k], "] - " \o strip(diff[i]) \o " (")
        /\ Len(risky_changes)
               = sum_to([i \in DOMAIN diff |-> findings_due(diff[i])], Len(diff))

\* the same risky added line twice: every finding of it is there twice
C8_Witness ==
    /\ pc = "group"
    /\ \E i, j \in DOMAIN diff :
           /\ i # j
           /\ diff[i] = diff[j]
           /\ startswith(diff[i], "+")
           /\ Len(risky_changes) = 2 * findings_due(diff[i])
           /\ findings_due(diff[i]) >= 2

\* of the paths of the model, those whose suffix, in lower case, is none of
\* .txt, .rules, .iptables
InvalidPaths == {"notes.md", "rules.d/fw"}

\* the offending ones of the two input paths, before first
offending_paths ==
    (IF args.before \in InvalidPaths THEN <<args.before>> ELSE <<>>)
    \o (IF args.after \in InvalidPaths THEN <<args.after>> ELSE <<>>)

\* C9: the suffixes of both paths are checked before any file is read: if
\* either is outside .txt, .rules, .iptables (case-insensitive) no file is
\* read, one error is reported for each offending path, and the run returns
\* exit code 1.
C9_ExtensionCheckFirst ==
    offending_paths # <<>> =>
        /\ entries(log, "read ") = <<>>
        /\ before_lines = <<>>
        /\ after_lines = <<>>
        /\ pc \in {"start", "done"}
        /\ pc = "done" =>
               /\ ret = 1
               /\ Len(entries(log, "error: ")) = Len(offending_paths)
               /\ \A i \in DOMAIN offending_paths :
                      contains(entries(log, "error: ")[i],
                               "The file " \o offending_paths[i] \o " ")

\* both paths have a bad suffix, and the run has ended with two errors
C9_Witness ==
    /\ pc = "done"
    /\ Len(offending_paths) = 2
    /\ Len(entries(log, "error: ")) = 2
    /\ ret = 1

\* of the files of the model, the contents the format detector must reject:
\* fewer than three lines with an iptables signature
NotRuleFiles == {Notes, <<>>}

\* the sides whose file is read and is no rule file
failing_files ==
    (IF fs.before.lines \in NotRuleFiles THEN <<args.before>> ELSE <<>>)
    \o (IF fs.after.lines \in NotRuleFiles THEN <<args.after>> ELSE <<>>)

\* C10: both files are checked by the format detector before normalization
\* or diffing: if either fails, the run returns exit code 1 without calling
\* the normalizer, differ, classifier, grouper or scorer, and reports one
\* error for each failing file.
C10_FormatCheckFirst ==
    (/\ offending_paths = <<>>
     /\ fs.before.exists
     /\ fs.after.exists
     /\ failing_files # <<>>) =>
        /\ \A k \in DOMAIN log :
               log[k] \notin {"call normalize_iptables_config",
                              "call compare_configs",
                              "call detect_security_risks",
                              "call group_rules",
                              "call calculate_impact_metrics",
                              "call generate_report"}
        /\ pc \in {"start", "read", "validate", "done"}
        /\ pc = "done" =>
               /\ ret = 1
               /\ Len(entries(log, "call is_iptables_file")) = 2
               /\ Len(entries(log, "error: ")) = Len(failing_files)
               /\ \A i \in DOMAIN failing_files :
                      contains(entries(log, "error: ")[i],
                               "The file " \o failing_files[i]
                               \o " does not appear to be an iptables")

\* both files are no rule files, and the run has ended with two errors
C10_Witness ==
    /\ pc = "done"
    /\ offending_paths = <<>>
    /\ fs.before.exists
    /\ fs.after.exists
    /\ Len(failing_files) = 2
    /\ Len(entries(log, "error: ")) = 2
    /\ ret = 1

\* both paths pass the suffix check, both files exist with the same bytes,
\* and the content passes the format detector
identical_valid_inputs ==
    /\ offending_paths = <<>>
    /\ fs.before.exists
    /\ fs.after.exists
    /\ fs.before.lines = fs.after.lines
    /\ is_iptables_file(fs.before.lines)

NoDifferencesNotice ==
    "panel: No differences detected between the configurations."

\* C11: diffing two identical line sequences yields an empty diff, and a
\* run of main on two valid byte-identical files takes the no-differences
\* path: the classifier, grouper, scorer and report never run, and the run
\* ends right after the comparison with the notice and exit code 0.
C11_NoDifferencesPath ==
    /\ pc = "compare" =>
           /\ compare_configs(before_lines, before_lines) = <<>>
           /\ compare_configs(after_lines, after_lines) = <<>>
    /\ identical_valid_inputs =>
           /\ pc \in {"start", "read", "validate", "normalize", "compare",
                       "done"}
           /\ \A k \in DOMAIN log :
                  log[k] \notin {"call detect_security_risks",
                                 "call group_rules",
                                 "call calculate_impact_metrics",
                                 "call generate_report"}
           /\ diff = <<>>
           /\ risky_changes = <<>>
           /\ grouped_rules = <<>>
           /\ metrics = NoMetrics
           /\ entries(log, "error: ") = <<>>
           /\ pc = "done" =>
                  /\ ret = 0
                  /\ Len(entries(log, "call compare_configs")) = 1
                  /\ log[Len(log)] = NoDifferencesNotice

\* a run on two identical rule files has ended with the notice
C11_Witness ==
    /\ identical_valid_inputs
    /\ pc = "done"
    /\ ret = 0
    /\ Len(fs.before.lines) >= 3
    /\ log[Len(log)] = NoDifferencesNotice

\* C12: every element of a normalized rule set is non-empty and holds no
\* comment marker '#': no comment text is left, also not a comment written
\* after a rule on the same line.
C12_NoCommentMarker ==
    pc # "normalize" =>
        \A i \in DOMAIN before_lines :
            /\ before_lines[i] # ""
            /\ ~contains(before_lines[i], "#")

\* of the lines of the model, those that match a signature: the rule line
\* matches three (-A chain, -j target, DROP), the other two one each; a
\* lone "-A " has no chain name behind it
SignatureLines == {RuleLine, KeywordLine, PolicyLine}

\* how many of the lines match at least one signature
matching_count(lines) ==
    Cardinality({i \in DOMAIN lines : lines[i] \in SignatureLines})

\* the format validation has reported the file of this path
rejected(path) ==
    \E i \in DOMAIN validation_errors :
        validation_errors[i] = "The file " \o path
            \o " does not appear to be an iptables configuration."

\* C13: the format detector accepts a file if and only if at least three
\* of its lines match at least one signature each, a line that matches
\* several signatures counting once; it rejects the empty file; and what
\* follows the third matching line does not change the result.
C13_ThreeMatchingLines ==
    pc # "validate" =>
        LET lines == fs.before.lines
        IN  /\ ~rejected(args.before) <=> matching_count(lines) >= threshold
            /\ lines = <<>> => rejected(args.before)
            /\ \A k \in DOMAIN lines :
                   matching_count(SubSeq(lines, 1, k)) >= threshold =>
                       /\ is_iptables_file(SubSeq(lines, 1, k))
                       /\ ~rejected(args.before)
                       /\ \A next \in FormatLines :
                              is_iptables_file(Append(SubSeq(lines, 1, k), next))

\* a file is accepted whose third matching line is followed by a line that
\* matches nothing, and one of the three is a rule line
C13_Witness ==
    /\ pc = "normalize"
    /\ Len(fs.before.lines) = 4
    /\ matching_count(SubSeq(fs.before.lines, 1, 3)) = 3
    /\ fs.before.lines[4] \notin SignatureLines
    /\ \E i \in 1..3 : fs.before.lines[i] = RuleLine
    /\ ~rejected(args.before)

====
